---- MODULE Spec2Model ----
(***************************************************************************)
(* Model of the simulation synchronization core of bitcoin-abm-v2:         *)
(* the useSimulation hook (frontend/src/hooks/useSimulation.js), the two   *)
(* transports it talks over, and the simulation engine behind them.        *)
(* The engine (backend/simulation.py, backend/server.py) is not part of    *)
(* the sources at hand; it is modelled from the specification's contract.  *)
(***************************************************************************)
EXTENDS Integers, Sequences, FiniteSets, Bags, TLC

\* ------------------------------------------------------------------ bounds
MaxStep == 2          \* the engine's step counter is explored up to here
MaxInFlight == 2      \* messages in flight over both transports together
MaxTimers == 2        \* interval timers the timer table can hold
MaxSnapStep == 2      \* step values of the snapshots fed in SnapSpec
MaxHistStep == 105    \* step values of the snapshots fed in HistSpec
MaxTrendStep == 4      \* step values of the snapshots fed in TrendSpec
MaxFeedStep == 2       \* step values of the snapshots fed in FeedSpec
MaxWindow == 3         \* window length at which the feed of FeedSpec stops

\* --------------------------------------------------------------- constants
NoTimer == 0          \* intervalRef.current === null
NoStep == 0 - 1       \* a snapshot that carries no step (undefined / null)
DefaultCount == 1     \* step(count = 1)
DefaultHashrate == 100
reconnectionAttempts == 5      \* io(SOCKET_URL, { reconnectionAttempts: 5 })
MAX_HISTORY == 100             \* AnalysisTab: keep last 100 data points

NoError == "null"
ConnError == "Connection failed - is backend running?"
FetchError == "err.message"

MetricFields ==
    {"block_height", "hashrate", "difficulty", "mempool_size", "avg_fee",
     "blocks_mined", "transactions_processed", "bips_proposed"}

\* useState initial values
InitialMetrics ==
    [block_height |-> 0, hashrate |-> DefaultHashrate, difficulty |-> 1,
     mempool_size |-> 0, avg_fee |-> 1, blocks_mined |-> 0,
     transactions_processed |-> 0, bips_proposed |-> 0]

InitialSimState == [step |-> 0, running |-> FALSE]

EmptyRec == [f \in {} |-> 0]

\* params bundles handed to reset(): {} and a scenario's parameter bundle
EmptyParams == {}
FeeSpikeParams == {<<"tx_arrival_rate", 2>>}
ParamsBundles == {EmptyParams, FeeSpikeParams}

VARIABLES
    connected,        \* useState: connected
    simState,         \* useState: {step, running}
    metrics,          \* useState: metrics record
    error,            \* useState: error message or null
    socketConnected,  \* socketRef.current.connected
    runningRef,       \* runningRef.current
    intervalRef,      \* intervalRef.current
    timers,           \* interval timers that are scheduled (timer table)
    tornDown,         \* the hook's owner has been unmounted
    engine,           \* the engine's single owned state
    chanUp,           \* channel events client -> server, in order
    chanDown,         \* state_update events server -> client, in order
    restReq,          \* pending fallback calls whose request is unanswered
    restResp,         \* pending fallback calls whose response is on its way
    errorTimeouts,    \* pending 5 s error timeouts, each named by its message
    attempts,         \* the socket manager's count of reconnection attempts
    gaveUp,           \* the socket manager has stopped reconnecting
    analysisTab,      \* the AnalysisTab component is mounted
    history,          \* AnalysisTab useState: history
    currentScenario,  \* App: the currentScenario it renders with
    banner,           \* App: the Scenario Hypothesis Bar as last rendered
    scenarioPick      \* Header: the option last picked in the selector

vars == <<connected, simState, metrics, error, socketConnected, runningRef,
          intervalRef, timers, tornDown, engine, chanUp, chanDown, restReq,
          restResp, errorTimeouts, attempts, gaveUp, analysisTab, history,
          currentScenario, banner, scenarioPick>>

managerVars == <<attempts, gaveUp>>
analysisVars == <<analysisTab, history>>
appVars == <<currentScenario, banner, scenarioPick>>
clientVars == <<connected, simState, metrics, error, socketConnected,
                runningRef, intervalRef, timers, tornDown, errorTimeouts,
                managerVars, analysisVars, appVars>>
driverVars == <<runningRef, intervalRef, timers>>
netVars == <<chanUp, chanDown, restReq, restResp>>
sessionVars == <<connected, simState, metrics, error, socketConnected,
                 driverVars, tornDown, errorTimeouts, managerVars,
                 analysisVars, engine, netVars>>

\* ------------------------------------------------------------ pure helpers
\* bag b with one more, one fewer copy of x
BagAdd(b, x) == b (+) SetToBag({x})
BagRemove(b, x) == b (-) SetToBag({x})

InFlight ==
    Len(chanUp) + Len(chanDown) + BagCardinality(restReq)
    + BagCardinality(restResp)

\* ------------------------------------------------------ engine (from spec)
ArrivalRate(p) ==
    IF \E kv \in p : kv[1] = "tx_arrival_rate"
    THEN (CHOOSE kv \in p : kv[1] = "tx_arrival_rate")[2]
    ELSE 1

\* the opaque stepping function: metrics after n steps under params p
MetricsAt(p, n) ==
    [block_height |-> n, hashrate |-> DefaultHashrate, difficulty |-> 1,
     mempool_size |-> n * ArrivalRate(p), avg_fee |-> 1, blocks_mined |-> n,
     transactions_processed |-> n, bips_proposed |-> 0]

EngineReset(p) == [step |-> 0, params |-> p]

EngineStep(e, count) ==
    IF count <= 0 THEN e ELSE [e EXCEPT !.step = e.step + count]

Snapshot(e) ==
    [step |-> e.step, metrics |-> MetricsAt(e.params, e.step),
     activity |-> EmptyRec]

\* the count an advance request asks for: the default when it names none
EffCount(msg) == IF msg.count = <<>> THEN DefaultCount ELSE msg.count[1]

EngineApply(e, msg) ==
    IF msg.ev = "reset" THEN EngineReset(msg.params)
    ELSE EngineStep(e, EffCount(msg))

NoSnap == [step |-> NoStep, metrics |-> EmptyRec, activity |-> EmptyRec]

\* the response envelopes of the request/response calls
OkEnvelope(e) == [status |-> "ok", state |-> Snapshot(e)]
ErrorEnvelope == [status |-> "error", state |-> NoSnap]

\* ------------------------------------------------- messages the hook sends
StepEmitMsgTwice == [ev |-> "step", count |-> <<2>>, params |-> EmptyParams]
\* socketRef.current.emit('step', { count: 1 })
StepEmitMsg == [ev |-> "step", count |-> <<1>>, params |-> EmptyParams]
StepFetchMsgZero == [ev |-> "step", count |-> <<0>>, params |-> EmptyParams]
\* fetch('/api/step', { method: 'POST' })  -- no body
StepFetchMsg == [ev |-> "step", count |-> <<>>, params |-> EmptyParams]
\* socketRef.current.emit('reset', params)
ResetEmitMsg(p) == [ev |-> "reset", count |-> <<>>, params |-> p]
\* fetch('/api/reset', { body: JSON.stringify(params) })
ResetFetchMsg(p) == [ev |-> "reset", count |-> <<>>, params |-> p]

\* a pending call of the async step()/reset(): who called, what it fetched
PendingCall(caller, msg) == [by |-> caller, req |-> msg]
\* the same call once the server has answered
AnsweredCall(call, envelope) == [by |-> call.by, data |-> envelope]

\* --------------------------------------------------------- updateFromState
UpdStepOnly(prev, state) ==
    [step |-> IF state.step = NoStep THEN prev.step ELSE state.step,
     running |-> FALSE]
\* setSimState(prev => ({ ...prev, step: state.step ?? prev.step }))
UpdStep(prev, state) ==
    [prev EXCEPT !.step = IF state.step = NoStep THEN prev.step ELSE state.step]

\* { ...a, ...b }
Spread(a, b) == b @@ a

UpdMetricsReplace(prev, state) ==
    IF DOMAIN state.metrics = {} THEN prev
    ELSE Spread(state.metrics, state.activity)
\* setMetrics(prev => ({ ...prev, ...state.metrics, ...(state.activity || {}) }))
UpdMetrics(prev, state) ==
    Spread(Spread(prev, state.metrics), state.activity)

\* the displayed state
Display == [simState |-> simState, metrics |-> metrics]
\* updateFromState(state), as a function of the displayed state
UpdateFromState(d, state) ==
    [simState |-> UpdStep(d.simState, state),
     metrics |-> UpdMetrics(d.metrics, state)]

\* const data = await res.json(); if (data.status === 'ok') updateFromState
OnFetchResolved(d, data) ==
    IF data.status = "ok" THEN UpdateFromState(d, data.state) ELSE d

\* state setters of an unmounted hook have no effect
SetDisplay(d) ==
    IF tornDown
    THEN UNCHANGED <<simState, metrics>>
    ELSE /\ simState' = d.simState
         /\ metrics' = d.metrics

\* ------------------------------------------------- error timeout (effect)
ErrorEffectNoCleanup(table) ==
    errorTimeouts' =
        IF error' = error THEN table
        ELSE table \cup (IF error' = NoError THEN {} ELSE {error'})
\* useEffect(() => { if (error) { setTimeout(...); return clearTimeout } },
\* [error]): when error changes, the cleanup clears the timeout the last run
\* started, and a message that is set starts a new one. table is the timer
\* table the effect finds.
ErrorEffect(table) ==
    errorTimeouts' =
        IF error' = error THEN table
        ELSE (table \ {error}) \cup (IF error' = NoError THEN {} ELSE {error'})

\* ------------------------------------------------- AnalysisTab (history)
HistoryEntry(st, m) ==
    [step |-> st.step, mempool |-> m.mempool_size, fee |-> m.avg_fee,
     blocks |-> m.blocks_mined, hashrate |-> m.hashrate,
     difficulty |-> m.difficulty]

KeepAll(h) == h
\* updated.length > MAX_HISTORY ? updated.slice(-MAX_HISTORY) : updated
KeepLast(h) ==
    IF Len(h) > MAX_HISTORY
    THEN SubSeq(h, Len(h) - MAX_HISTORY + 1, Len(h))
    ELSE h

\* history effect, deps [simState.step, metrics]
TrackHistory(h, st, m) ==
    IF st.step > 0 THEN KeepLast(Append(h, HistoryEntry(st, m))) ELSE h

ResetHistoryNever(h, st) == h
\* reset effect, deps [simState.step]
ResetHistory(h, st) == IF st.step = 0 THEN <<>> ELSE h

\* setMetrics ran, so metrics is a new object: if (state.metrics)
MetricsReplaced(state) == DOMAIN state.metrics # {}

\* the effects that run after a render that took the display from d to dNext
HistoryAfter(h, d, dNext, replaced) ==
    LET stepChanged == dNext.simState.step # d.simState.step
        tracked == IF stepChanged \/ replaced
                   THEN TrackHistory(h, dNext.simState, dNext.metrics)
                   ELSE h
    IN  IF stepChanged THEN ResetHistory(tracked, dNext.simState) ELSE tracked

\* a mounted AnalysisTab re-renders with the new props
AnalysisEffects(dNext, replaced) ==
    /\ history' = IF analysisTab /\ ~tornDown
                  THEN HistoryAfter(history, Display, dNext, replaced)
                  ELSE history
    /\ UNCHANGED analysisTab

\* ---------------------------------------------------------------- initial
SessionInit ==
    /\ connected = FALSE
    /\ simState = InitialSimState
    /\ metrics = InitialMetrics
    /\ error = NoError
    /\ socketConnected = FALSE
    /\ runningRef = FALSE
    /\ intervalRef = NoTimer
    /\ timers = {}
    /\ tornDown = FALSE
    /\ engine = EngineReset(EmptyParams)
    /\ chanUp = <<>>
    /\ chanDown = <<>>
    /\ restReq = EmptyBag
    /\ restResp = EmptyBag
    /\ errorTimeouts = {}
    /\ attempts = 0
    /\ gaveUp = FALSE
    /\ analysisTab = FALSE
    /\ history = <<>>

\* useSimulation() returns no currentScenario: App destructures undefined
Undefined == "undefined"
NotRendered == <<"not rendered">>

Init ==
    /\ SessionInit
    /\ currentScenario = Undefined
    /\ banner = NotRendered
    /\ scenarioPick = Undefined

\* ------------------------------------------------------- intent transport
SendStepBoth(caller) ==
    /\ chanUp' = Append(chanUp, StepEmitMsg)
    /\ restReq' = IF socketConnected THEN restReq
                  ELSE BagAdd(restReq, PendingCall(caller, StepFetchMsg))
\* step(): the channel when the socket is connected, else the REST fallback
SendStep(caller) ==
    IF socketConnected
    THEN /\ chanUp' = Append(chanUp, StepEmitMsg)
         /\ UNCHANGED restReq
    ELSE /\ restReq' = BagAdd(restReq, PendingCall(caller, StepFetchMsg))
         /\ UNCHANGED chanUp

\* reset(params), second half: emit or fetch
SendReset(p) ==
    IF socketConnected
    THEN /\ chanUp' = Append(chanUp, ResetEmitMsg(p))
         /\ UNCHANGED restReq
    ELSE /\ restReq' = BagAdd(restReq, PendingCall("user", ResetFetchMsg(p)))
         /\ UNCHANGED chanUp

\* setInterval: the timer table hands out an identifier that is not in use
NewTimer == CHOOSE id \in 1..MaxTimers : id \notin timers

\* ------------------------------------------------------ operations (hook)
\* step() called by the user
Step ==
    /\ ~tornDown
    /\ InFlight < MaxInFlight
    /\ SendStep("user")
    /\ UNCHANGED <<clientVars, engine, chanDown, restResp>>

ResetOptimistic(p) ==
    /\ ~tornDown
    /\ InFlight < MaxInFlight
    /\ runningRef' = FALSE
    /\ simState' = [step |-> 0, running |-> FALSE]
    /\ timers' = timers \ {intervalRef}
    /\ intervalRef' = NoTimer
    /\ SendReset(p)
    /\ UNCHANGED <<connected, metrics, error, socketConnected, tornDown,
                   engine, chanDown, restResp, errorTimeouts,
                   managerVars, appVars,
                   analysisVars>>
ResetNoStop(p) ==
    /\ ~tornDown
    /\ InFlight < MaxInFlight
    /\ SendReset(p)
    /\ UNCHANGED <<runningRef, simState, timers, intervalRef>>
    /\ UNCHANGED <<connected, metrics, error, socketConnected, tornDown,
                   engine, chanDown, restResp, errorTimeouts,
                   managerVars, appVars, analysisVars>>
\* reset(params)
Reset(p) ==
    /\ ~tornDown
    /\ InFlight < MaxInFlight
    /\ IF runningRef
       THEN /\ runningRef' = FALSE
            /\ simState' = [simState EXCEPT !.running = FALSE]
            /\ IF intervalRef # NoTimer
               THEN /\ timers' = timers \ {intervalRef}
                    /\ intervalRef' = NoTimer
               ELSE UNCHANGED <<timers, intervalRef>>
       ELSE UNCHANGED <<runningRef, simState, timers, intervalRef>>
    /\ SendReset(p)
    /\ UNCHANGED <<connected, metrics, error, socketConnected, tornDown,
                   engine, chanDown, restResp, errorTimeouts,
                   managerVars, appVars,
                   analysisVars>>

RunNoGuard ==
    /\ ~tornDown
    /\ Cardinality(timers) < MaxTimers
    /\ runningRef' = TRUE
    /\ simState' = [simState EXCEPT !.running = TRUE]
    /\ intervalRef' = NewTimer
    /\ timers' = timers \cup {NewTimer}
    /\ UNCHANGED <<connected, metrics, error, socketConnected, tornDown,
                   engine, netVars, errorTimeouts,
                   managerVars, appVars, analysisVars>>
\* run()
Run ==
    /\ ~tornDown
    /\ IF runningRef
       THEN UNCHANGED <<runningRef, simState, intervalRef, timers>>
       ELSE /\ Cardinality(timers) < MaxTimers
            /\ runningRef' = TRUE
            /\ simState' = [simState EXCEPT !.running = TRUE]
            /\ intervalRef' = NewTimer
            /\ timers' = timers \cup {NewTimer}
    /\ UNCHANGED <<connected, metrics, error, socketConnected, tornDown,
                   engine, netVars, errorTimeouts,
                   managerVars, appVars, analysisVars>>

StopNoClear ==
    /\ ~tornDown
    /\ runningRef' = FALSE
    /\ simState' = [simState EXCEPT !.running = FALSE]
    /\ intervalRef' = NoTimer
    /\ UNCHANGED <<connected, metrics, error, socketConnected, tornDown,
                   timers, engine, netVars, errorTimeouts, managerVars, appVars,
                   analysisVars>>
\* stop()
Stop ==
    /\ ~tornDown
    /\ runningRef' = FALSE
    /\ simState' = [simState EXCEPT !.running = FALSE]
    /\ IF intervalRef # NoTimer
       THEN /\ timers' = timers \ {intervalRef}
            /\ intervalRef' = NoTimer
       ELSE UNCHANGED <<timers, intervalRef>>
    /\ UNCHANGED <<connected, metrics, error, socketConnected, tornDown,
                   engine, netVars, errorTimeouts,
                   managerVars, appVars, analysisVars>>

\* the interval callback of timer id fires
Tick(id) ==
    /\ id \in timers
    /\ IF runningRef
       THEN /\ InFlight < MaxInFlight
            /\ SendStep("tick")
       ELSE UNCHANGED <<chanUp, restReq>>
    /\ UNCHANGED <<clientVars, engine, chanDown, restResp>>

TeardownNoClear ==
    /\ ~tornDown
    /\ tornDown' = TRUE
    /\ socketConnected' = FALSE
    /\ chanUp' = <<>>
    /\ chanDown' = <<>>
    /\ errorTimeouts' = errorTimeouts \ {error}
    /\ analysisTab' = FALSE
    /\ history' = <<>>
    /\ UNCHANGED <<connected, simState, metrics, error, runningRef,
                   intervalRef, timers, engine, restReq, restResp,
                   managerVars, appVars>>
\* unmount: the effect cleanups run (socket.disconnect, clearInterval,
\* clearTimeout) and the components below the owner unmount with it
Teardown ==
    /\ ~tornDown
    /\ tornDown' = TRUE
    /\ socketConnected' = FALSE
    /\ chanUp' = <<>>
    /\ chanDown' = <<>>
    /\ timers' = IF intervalRef # NoTimer THEN timers \ {intervalRef}
                 ELSE timers
    /\ errorTimeouts' = errorTimeouts \ {error}
    /\ analysisTab' = FALSE
    /\ history' = <<>>
    /\ UNCHANGED <<connected, simState, metrics, error, runningRef,
                   intervalRef, engine, restReq, restResp,
                   managerVars, appVars>>

\* ------------------------------------------------------- socket callbacks
\* socket.on('connect', ...)
OnConnect ==
    /\ connected' = TRUE
    /\ error' = NoError
    /\ ErrorEffect(errorTimeouts)

OnDisconnectNoFlag == connected' = connected
\* socket.on('disconnect', ...)
OnDisconnect == connected' = FALSE

\* socket.on('connect_error', ...)
OnConnectError ==
    /\ error' = ConnError
    /\ connected' = FALSE
    /\ ErrorEffect(errorTimeouts)

\* In Spec, SnapSpec and FallbackSpec the channel may come up, drop or fail
\* to come up at any time: the manager's retry budget is left out there
\* (ReconnSpec below has it).
\* the channel comes up: 'connect'
SocketConnect ==
    /\ ~tornDown
    /\ ~socketConnected
    /\ socketConnected' = TRUE
    /\ OnConnect
    /\ UNCHANGED <<simState, metrics, driverVars, tornDown, engine, netVars,
                   managerVars, appVars, analysisVars>>

SocketDisconnectStops ==
    /\ socketConnected
    /\ socketConnected' = FALSE
    /\ connected' = FALSE
    /\ chanUp' = <<>>
    /\ chanDown' = <<>>
    /\ runningRef' = FALSE
    /\ timers' = timers \ {intervalRef}
    /\ intervalRef' = NoTimer
    /\ UNCHANGED <<simState, metrics, error, tornDown, engine,
                   restReq, restResp, errorTimeouts, managerVars, appVars,
                   analysisVars>>
\* transport loss (channel messages in flight are dropped): 'disconnect'
SocketDisconnect ==
    /\ socketConnected
    /\ socketConnected' = FALSE
    /\ OnDisconnect
    /\ chanUp' = <<>>
    /\ chanDown' = <<>>
    /\ UNCHANGED <<simState, metrics, error, driverVars, tornDown, engine,
                   restReq, restResp, errorTimeouts, managerVars, appVars,
                   analysisVars>>

SocketConnectErrorStops ==
    /\ ~tornDown
    /\ ~socketConnected
    /\ OnConnectError
    /\ runningRef' = FALSE
    /\ timers' = timers \ {intervalRef}
    /\ intervalRef' = NoTimer
    /\ UNCHANGED <<simState, metrics, socketConnected, tornDown,
                   engine, netVars, managerVars, appVars, analysisVars>>
\* a connection attempt fails: 'connect_error'
SocketConnectError ==
    /\ ~tornDown
    /\ ~socketConnected
    /\ OnConnectError
    /\ UNCHANGED <<simState, metrics, socketConnected, driverVars, tornDown,
                   engine, netVars, managerVars, appVars, analysisVars>>

\* socket.on('state_update', (state) => updateFromState(state))
StateUpdate ==
    /\ socketConnected
    /\ Len(chanDown) > 0
    /\ SetDisplay(UpdateFromState(Display, Head(chanDown)))
    /\ AnalysisEffects(UpdateFromState(Display, Head(chanDown)),
                       MetricsReplaced(Head(chanDown)))
    /\ chanDown' = Tail(chanDown)
    /\ UNCHANGED <<connected, error, socketConnected, driverVars, tornDown,
                   engine, chanUp, restReq, restResp, errorTimeouts,
                   managerVars, appVars>>

RestResponseIfRunning(r) ==
    /\ BagIn(r, restResp)
    /\ IF runningRef
       THEN /\ SetDisplay(OnFetchResolved(Display, r.data))
            /\ AnalysisEffects(OnFetchResolved(Display, r.data),
                               r.data.status = "ok"
                               /\ MetricsReplaced(r.data.state))
       ELSE UNCHANGED <<simState, metrics, analysisVars>>
    /\ restResp' = BagRemove(restResp, r)
    /\ UNCHANGED <<connected, error, socketConnected, driverVars, tornDown,
                   engine, chanUp, chanDown, restReq, errorTimeouts,
                   managerVars, appVars>>
\* the fallback fetch of a pending call resolves
RestResponse(r) ==
    /\ BagIn(r, restResp)
    /\ SetDisplay(OnFetchResolved(Display, r.data))
    /\ AnalysisEffects(OnFetchResolved(Display, r.data),
                       r.data.status = "ok" /\ MetricsReplaced(r.data.state))
    /\ restResp' = BagRemove(restResp, r)
    /\ UNCHANGED <<connected, error, socketConnected, driverVars, tornDown,
                   engine, chanUp, chanDown, restReq, errorTimeouts,
                   managerVars, appVars>>

\* the fallback fetch throws: catch (err) { setError(err.message) }
FetchFail(c) ==
    /\ BagIn(c, restReq)
    /\ restReq' = BagRemove(restReq, c)
    /\ error' = IF tornDown THEN error ELSE FetchError
    /\ ErrorEffect(errorTimeouts)
    /\ UNCHANGED <<connected, simState, metrics, socketConnected, driverVars,
                   tornDown, engine, chanUp, chanDown, restResp,
                   managerVars, appVars,
                   analysisVars>>

\* clearError: () => setError(null)
ClearError ==
    /\ ~tornDown
    /\ error' = NoError
    /\ ErrorEffect(errorTimeouts)
    /\ UNCHANGED <<connected, simState, metrics, socketConnected, driverVars,
                   tornDown, engine, netVars,
                   managerVars, appVars, analysisVars>>

\* the 5 s timeout started for message m fires: setError(null)
ErrorTimeout(m) ==
    /\ m \in errorTimeouts
    /\ error' = NoError
    /\ ErrorEffect(errorTimeouts \ {m})
    /\ UNCHANGED <<connected, simState, metrics, socketConnected, driverVars,
                   tornDown, engine, netVars,
                   managerVars, appVars, analysisVars>>

\* ------------------------------------------------------ server (from spec)
\* a channel intent reaches the engine; the snapshot is pushed back
ServerChannel ==
    /\ socketConnected
    /\ Len(chanUp) > 0
    /\ EngineApply(engine, Head(chanUp)).step <= MaxStep
    /\ engine' = EngineApply(engine, Head(chanUp))
    /\ chanUp' = Tail(chanUp)
    /\ chanDown' = Append(chanDown, Snapshot(engine'))
    /\ UNCHANGED <<clientVars, restReq, restResp>>

\* a fallback request reaches the engine; the snapshot is the response
ServerRest(c) ==
    /\ BagIn(c, restReq)
    /\ EngineApply(engine, c.req).step <= MaxStep
    /\ engine' = EngineApply(engine, c.req)
    /\ restReq' = BagRemove(restReq, c)
    /\ restResp' = BagAdd(restResp, AnsweredCall(c, OkEnvelope(engine')))
    /\ UNCHANGED <<clientVars, chanUp, chanDown>>

\* a fallback request is rejected: envelope { status: "error" }
ServerRestReject(c) ==
    /\ BagIn(c, restReq)
    /\ restReq' = BagRemove(restReq, c)
    /\ restResp' = BagAdd(restResp, AnsweredCall(c, ErrorEnvelope))
    /\ UNCHANGED <<clientVars, engine, chanUp, chanDown>>

\* ------------------------------------------------------------------- spec
Next ==
    \/ Step
    \/ \E p \in ParamsBundles : Reset(p)
    \/ Run
    \/ Stop
    \/ \E id \in 1..MaxTimers : Tick(id)
    \/ Teardown
    \/ SocketConnect
    \/ SocketDisconnect
    \/ SocketConnectError
    \/ StateUpdate
    \/ \E r \in BagToSet(restResp) : RestResponse(r)
    \/ \E c \in BagToSet(restReq) : FetchFail(c)
    \/ ClearError
    \/ \E m \in errorTimeouts : ErrorTimeout(m)
    \/ ServerChannel
    \/ \E c \in BagToSet(restReq) : ServerRest(c)
    \/ \E c \in BagToSet(restReq) : ServerRestReject(c)

Spec == Init /\ [][Next]_vars

\* ------------------------------------------- snapshots fed to the session
\* the metric sets a fed snapshot carries: none, some of the fields, or all
CarriedFieldSets ==
    {{}, {"hashrate"}, {"difficulty"}, {"mempool_size"},
     {"avg_fee", "blocks_mined"}, MetricFields}

SnapshotInputs ==
    { [step |-> n, metrics |-> [f \in S |-> 7], activity |-> a] :
        n \in {NoStep} \cup 0..MaxSnapStep,
        S \in CarriedFieldSets,
        a \in {EmptyRec, [activity_level |-> 7]} }

\* a state_update event that carries snapshot s
FeedSnapshot(s) ==
    /\ socketConnected
    /\ SetDisplay(UpdateFromState(Display, s))
    /\ AnalysisEffects(UpdateFromState(Display, s), MetricsReplaced(s))
    /\ UNCHANGED <<connected, error, socketConnected, driverVars, tornDown,
                   engine, netVars, errorTimeouts, managerVars, appVars>>

SnapNext ==
    \/ SocketConnect
    \/ SocketDisconnect
    \/ \E s \in SnapshotInputs : FeedSnapshot(s)

SnapSpec == Init /\ [][SnapNext]_vars

\* ------------------------------------------- the session without a channel
\* the socket never connects: every intent goes over the fallback
FallbackNext ==
    \/ Step
    \/ \E p \in ParamsBundles : Reset(p)
    \/ Run
    \/ Stop
    \/ \E id \in 1..MaxTimers : Tick(id)
    \/ Teardown
    \/ SocketConnectError
    \/ \E r \in BagToSet(restResp) : RestResponse(r)
    \/ \E c \in BagToSet(restReq) : FetchFail(c)
    \/ ClearError
    \/ \E m \in errorTimeouts : ErrorTimeout(m)
    \/ \E c \in BagToSet(restReq) : ServerRest(c)
    \/ \E c \in BagToSet(restReq) : ServerRestReject(c)

FallbackSpec == Init /\ [][FallbackNext]_vars

\* ------------------------------------- the session with its socket manager
\* io(SOCKET_URL, { reconnection: true, reconnectionAttempts: 5,
\* reconnectionDelay: 1000 }): the manager opens the transport, and after a
\* failure or a loss schedules up to reconnectionAttempts reconnection
\* attempts; attempts counts the ones scheduled since the last open.

\* an attempt opens the transport: the count starts over, 'connect' fires
ConnectAttemptSucceeds ==
    /\ ~tornDown
    /\ ~socketConnected
    /\ ~gaveUp
    /\ socketConnected' = TRUE
    /\ attempts' = 0
    /\ OnConnect
    /\ UNCHANGED <<simState, metrics, driverVars, tornDown, engine, netVars,
                   gaveUp, analysisVars, appVars>>

\* an attempt fails: 'connect_error' fires, and the manager schedules the
\* next attempt or, with the attempts used up, gives up
ConnectAttemptFails ==
    /\ ~tornDown
    /\ ~socketConnected
    /\ ~gaveUp
    /\ IF attempts >= reconnectionAttempts
       THEN gaveUp' = TRUE /\ UNCHANGED attempts
       ELSE attempts' = attempts + 1 /\ UNCHANGED gaveUp
    /\ OnConnectError
    /\ UNCHANGED <<simState, metrics, socketConnected, driverVars, tornDown,
                   engine, netVars, analysisVars, appVars>>

\* the open transport is lost: 'disconnect' fires, and the manager
\* schedules the first reconnection attempt
TransportLoss ==
    /\ socketConnected
    /\ socketConnected' = FALSE
    /\ attempts' = 1
    /\ OnDisconnect
    /\ chanUp' = <<>>
    /\ chanDown' = <<>>
    /\ UNCHANGED <<simState, metrics, error, driverVars, tornDown, engine,
                   restReq, restResp, errorTimeouts, gaveUp, analysisVars,
                   appVars>>

\* every operation the hook returns, the manager's events, the fallback's
\* failures and the unmount
ReconnNext ==
    \/ ConnectAttemptSucceeds
    \/ ConnectAttemptFails
    \/ TransportLoss
    \/ Step
    \/ \E p \in ParamsBundles : Reset(p)
    \/ Run
    \/ Stop
    \/ \E id \in 1..MaxTimers : Tick(id)
    \/ ClearError
    \/ \E m \in errorTimeouts : ErrorTimeout(m)
    \/ \E c \in BagToSet(restReq) : FetchFail(c)
    \/ Teardown

ReconnSpec == Init /\ [][ReconnNext]_vars

\* ------------------------------------------- the session with AnalysisTab
\* {activeTab === 'Analysis' && <AnalysisTab .../>}: the tab mounts with an
\* empty history, and both of its effects run on the props it mounts with
ShowAnalysis ==
    /\ ~tornDown
    /\ ~analysisTab
    /\ analysisTab' = TRUE
    /\ history' = ResetHistory(TrackHistory(<<>>, simState, metrics), simState)
    /\ UNCHANGED <<connected, simState, metrics, error, socketConnected,
                   driverVars, tornDown, engine, netVars, errorTimeouts,
                   managerVars, appVars>>

\* another tab is chosen: AnalysisTab unmounts and its state is gone
HideAnalysis ==
    /\ analysisTab
    /\ analysisTab' = FALSE
    /\ history' = <<>>
    /\ UNCHANGED <<connected, simState, metrics, error, socketConnected,
                   driverVars, tornDown, engine, netVars, errorTimeouts,
                   managerVars, appVars>>

\* the engine's stream as the session sees it: the snapshot of the next
\* step, or the snapshot of a reinitialized engine
ResetSnap == Snapshot(EngineReset(EmptyParams))
HistoryInputs ==
    {ResetSnap}
    \cup { Snapshot([step |-> n, params |-> EmptyParams]) :
             n \in {simState.step + 1} \cap (1..MaxHistStep) }

HistNext ==
    \/ SocketConnect
    \/ ShowAnalysis
    \/ HideAnalysis
    \/ \E s \in HistoryInputs : FeedSnapshot(s)

HistSpec == Init /\ [][HistNext]_vars

\* --------------------------------------------- the session's error message
ErrorTimeoutAny == \E m \in errorTimeouts : ErrorTimeout(m)

\* everything that sets or clears the message, with the driver and the
\* intents that lead there; no engine behind the transports
ErrNext ==
    \/ SocketConnect
    \/ SocketDisconnect
    \/ SocketConnectError
    \/ Step
    \/ Run
    \/ Stop
    \/ \E id \in 1..MaxTimers : Tick(id)
    \/ \E c \in BagToSet(restReq) : FetchFail(c)
    \/ ClearError
    \/ ErrorTimeoutAny
    \/ Teardown

\* a timeout that was set and is not cleared fires
ErrSpec == Init /\ [][ErrNext]_vars /\ WF_vars(ErrorTimeoutAny)

\* ------------------------------------------------------------- properties
\* the driver is Running: the flag is set and a cadence timer is scheduled
Running == runningRef /\ timers # {}

TickAny == \E id \in 1..MaxTimers : Tick(id)
ResetAny == \E p \in ParamsBundles : Reset(p)

RECURSIVE BagCount(_, _)
BagCount(b, S) ==
    IF S = {} THEN 0
    ELSE LET x == CHOOSE y \in S : TRUE
         IN  CopiesIn(x, b) + BagCount(b, S \ {x})

\* the pending fallback calls that a driver tick issued
TickCallsPending ==
    BagCount(restReq, {c \in BagToSet(restReq) : c.by = "tick"})
    + BagCount(restResp, {r \in BagToSet(restResp) : r.by = "tick"})

\* qNext is q with one intent of kind ev appended
Emitted(q, qNext, ev) ==
    /\ Len(qNext) = Len(q) + 1
    /\ SubSeq(qNext, 1, Len(q)) = q
    /\ qNext[Len(qNext)].ev = ev

\* bNext is b with one more pending call, fetching an intent of kind ev
Fetched(b, bNext, ev) ==
    \E c \in BagToSet(bNext) : c.req.ev = ev /\ bNext = BagAdd(b, c)

\* exactly one transport carries one intent of kind ev, chosen by the socket
OneTransport(ev) ==
    IF socketConnected
    THEN Emitted(chanUp, chanUp', ev) /\ restReq' = restReq
    ELSE Fetched(restReq, restReq', ev) /\ chanUp' = chanUp

\* an intent carried out over the channel: emit, engine call, state_update
ViaChannel(e, d, emitMsg) ==
    [engine |-> EngineApply(e, emitMsg),
     display |-> UpdateFromState(d, Snapshot(EngineApply(e, emitMsg)))]

\* the same intent carried out over the fallback: fetch, engine call, response
ViaFallback(e, d, fetchMsg) ==
    [engine |-> EngineApply(e, fetchMsg),
     display |-> OnFetchResolved(d, OkEnvelope(EngineApply(e, fetchMsg)))]

\* C1: a snapshot whose step is lower than the displayed step is discarded,
\* so the displayed step never decreases except by going back to 0.
C1_StaleSnapshotDiscarded ==
    [][simState'.step < simState.step => simState'.step = 0]_vars

\* C2: at most one cadence timer is scheduled in any state, it is the one
\* intervalRef holds, and a running driver has exactly one; run() while
\* Running creates no second timer.
C2_OneCadenceTimer ==
    /\ Cardinality(timers) <= 1
    /\ timers \subseteq {intervalRef}
    /\ (runningRef /\ ~tornDown) => Cardinality(timers) = 1

C2_Witness ==
    /\ runningRef
    /\ ~tornDown
    /\ timers = {intervalRef}
    /\ TickCallsPending = 2

\* C3: stop() cancels the cadence timer and leaves the driver Stopped, a
\* Stopped driver has no timer (so no tick fires until the next run()), and
\* stop() on a Stopped driver changes nothing.
C3_StopSemantics ==
    /\ [](~runningRef => timers = {})
    /\ [][Stop => (/\ ~runningRef'
                   /\ ~simState'.running
                   /\ timers' = {}
                   /\ intervalRef' = NoTimer)]_vars
    /\ [][(Stop /\ ~runningRef) => UNCHANGED vars]_vars

C3_Witness ==
    /\ ~runningRef
    /\ ~simState.running
    /\ timers = {}
    /\ intervalRef = NoTimer
    /\ \E c \in BagToSet(restReq) : c.by = "tick"

\* C4: after teardown no cadence timer is scheduled and no intent is issued,
\* whatever the driver's state was at teardown.
C4_TeardownCancelsTimer ==
    /\ [](tornDown => timers = {})
    /\ [][tornDown =>
            (/\ chanUp' = chanUp
             /\ BagCardinality(restReq') <= BagCardinality(restReq))]_vars

C4_Witness ==
    /\ tornDown
    /\ runningRef
    /\ intervalRef # NoTimer
    /\ timers = {}

\* C5: a step or reset intent goes over exactly one transport, chosen when it
\* is issued: one channel emit and no request when the socket is connected,
\* one request and no emit when it is not.
C5_ExactlyOneTransport ==
    /\ [][(Step \/ TickAny) => OneTransport("step")]_vars
    /\ [][ResetAny => OneTransport("reset")]_vars

C5_Witness ==
    /\ runningRef
    /\ socketConnected
    /\ Len(chanUp) = 1
    /\ chanUp[1].ev = "step"
    /\ restReq = SetToBag({PendingCall("tick", StepFetchMsg)})

C8_DisplayedStepIsEngineStep ==
    (InFlight = 0 /\ ~tornDown) => simState.step = engine.step

\* C9 as stated: only stop() and teardown end the Running state.
C9_OnlyStopOrTeardownEnds ==
    [][(Running /\ ~Running') => (Stop \/ Teardown)]_vars

\* C9 amended: only stop(), reset() and teardown end the Running state; while
\* Running a tick can fire, and each tick issues exactly one step intent and
\* leaves the driver Running.
C9_RunContinuity ==
    /\ []((Running /\ InFlight < MaxInFlight) => ENABLED TickAny)
    /\ [][(Running /\ ~Running') => (Stop \/ ResetAny \/ Teardown)]_vars
    /\ [][TickAny => (/\ InFlight' = InFlight + 1
                      /\ OneTransport("step")
                      /\ Running')]_vars

C9_Witness ==
    /\ Running
    /\ simState.step > 0
    /\ TickCallsPending > 0
    /\ Len(chanDown) > 0

\* C10: at most one step issued by a driver tick is unresolved at any time.
C10_NoOverlappingTicks == TickCallsPending <= 1

\* C11: stop() cancels no fallback call that is in flight; a response that
\* arrives while the driver is Stopped is still applied to the display and
\* leaves the driver Stopped; and while it is Stopped no tick adds a call
\* to the pending fallback requests.
C11_InFlightResultAfterStop ==
    /\ [][Stop => (restReq' = restReq /\ restResp' = restResp)]_vars
    /\ [][\A r \in BagToSet(restResp) :
            (~runningRef /\ ~tornDown /\ RestResponse(r)) =>
                (/\ simState' = OnFetchResolved(Display, r.data).simState
                 /\ metrics' = OnFetchResolved(Display, r.data).metrics
                 /\ ~runningRef'
                 /\ timers' = {})]_vars
    /\ [][~runningRef =>
            \A c \in BagToSet(restReq') :
                c.by = "tick" => CopiesIn(c, restReq') <= CopiesIn(c, restReq)]_vars

C11_Witness ==
    /\ ~runningRef
    /\ ~tornDown
    /\ intervalRef = NoTimer
    /\ simState.step = 1
    /\ \E r \in BagToSet(restResp) :
         r.by = "tick" /\ r.data.status = "ok" /\ r.data.state.step = 2

\* the manager has used up its attempts and the session is still mounted
GaveUp == gaveUp /\ ~tornDown

\* C12: the manager never schedules more than reconnectionAttempts attempts
\* after a loss, a manager that gave up is not connected, and once it has
\* given up some operation of the session is able to start a new attempt.
C12_BoundedReconnection ==
    /\ attempts <= reconnectionAttempts
    /\ gaveUp => (~socketConnected /\ attempts = reconnectionAttempts)
    /\ GaveUp => ENABLED (ReconnNext /\ ~gaveUp')

\* C13: a disconnect or a connect_error leaves the driver and the pending
\* calls as they were; while the socket is not connected step and reset are
\* still accepted, a Running driver still ticks, and each such step or reset
\* goes out as one fallback request and no channel event.
C13_FailureRedirectsIntents ==
    /\ [][(SocketDisconnect \/ SocketConnectError) =>
            (/\ ~socketConnected'
             /\ UNCHANGED driverVars
             /\ simState'.running = simState.running
             /\ restReq' = restReq)]_vars
    /\ []((~socketConnected /\ ~tornDown /\ InFlight < MaxInFlight) =>
            (/\ ENABLED Step
             /\ ENABLED ResetAny
             /\ Running => ENABLED TickAny))
    /\ [][(~socketConnected /\ (Step \/ TickAny)) =>
            (Fetched(restReq, restReq', "step") /\ chanUp' = chanUp)]_vars
    /\ [][(~socketConnected /\ ResetAny) =>
            (Fetched(restReq, restReq', "reset") /\ chanUp' = chanUp)]_vars

C13_Witness ==
    /\ Running
    /\ ~socketConnected
    /\ error = ConnError
    /\ \E c \in BagToSet(restReq) : c.by = "tick" /\ c.req.ev = "step"
    /\ \E c \in BagToSet(restReq) : c.req.ev = "reset"

FetchFailAny == \E c \in BagToSet(restReq) : FetchFail(c)

\* C14: every failed intent sets a message: a fetch that throws does, and
\* so does a response whose envelope says status "error".
C14_IntentFailureSurfaced ==
    /\ [][(FetchFailAny /\ ~tornDown) => error' # NoError]_vars
    /\ [][\A r \in BagToSet(restResp) :
            (RestResponse(r) /\ r.data.status = "error" /\ ~tornDown) =>
                error' # NoError]_vars

\* C15: the displayed step and metrics change only in a step that receives
\* a snapshot: a state_update, or a fallback response with status ok.
C15_OnlyConfirmedSnapshots ==
    [][(simState'.step # simState.step \/ metrics' # metrics) =>
        (\/ StateUpdate
         \/ \E r \in BagToSet(restResp) :
              RestResponse(r) /\ r.data.status = "ok")]_vars

C15_Witness ==
    /\ simState.step = 2
    /\ metrics["blocks_mined"] = 2
    /\ error = FetchError
    /\ \E c \in BagToSet(restReq) : c.req.ev = "reset"

\* C16: a connection event neither clears nor overwrites the message of a
\* failed intent, and a failed intent does not overwrite the message of a
\* failed connection.
C16_FailuresReportedApart ==
    /\ [][(SocketConnect \/ SocketDisconnect \/ SocketConnectError) =>
            (error = FetchError => error' = FetchError)]_vars
    /\ [][FetchFailAny => (error = ConnError => error' = ConnError)]_vars

C18_ConnectedFlagIsLive == ~tornDown => (connected = socketConnected)

C18_Witness ==
    /\ connected
    /\ socketConnected
    /\ Len(chanUp) = 1
    /\ BagCardinality(restReq) = 1

Min(a, b) == IF a < b THEN a ELSE b
FeedAny == \E s \in HistoryInputs : FeedSnapshot(s)

\* C19: the history window never holds more than MAX_HISTORY entries, and a
\* snapshot with a non-zero step is appended at the end while the entries
\* over the cap leave from the front: the kept entries are the most recent
\* ones, in arrival order.
C19_HistoryWindowBound ==
    /\ [](Len(history) <= MAX_HISTORY)
    /\ [][(FeedAny /\ analysisTab /\ simState'.step > 0) =>
            LET n == Len(history')
                evicted == Len(history) + 1 - n
            IN  /\ n = Min(Len(history) + 1, MAX_HISTORY)
                /\ history'[n] = HistoryEntry(simState', metrics')
                /\ \A i \in 1..(n - 1) : history'[i] = history[i + evicted]]_vars

C19_Witness ==
    /\ analysisTab
    /\ simState.step = 105
    /\ Len(history) = 100
    /\ history[1].step = 6
    /\ history[100].step = 105

\* C20: while AnalysisTab is mounted, observing a snapshot with step 0
\* empties the window, whatever it held; no entry with step 0 is ever in
\* the window, and the window is empty whenever the displayed step is 0.
C20_HistoryReset ==
    /\ [][(analysisTab /\ analysisTab' /\ simState.step # 0
           /\ simState'.step = 0) => history' = <<>>]_vars
    /\ [](\A i \in 1..Len(history) : history[i].step > 0)
    /\ []((analysisTab /\ simState.step = 0) => history = <<>>)

C20_Witness ==
    /\ analysisTab
    /\ Len(history) = MAX_HISTORY
    /\ ENABLED (FeedSnapshot(ResetSnap) /\ history' = <<>>)

\* C21: the history window starts empty, and every applied snapshot with a
\* non-zero step appends exactly one entry for that snapshot at the end of
\* the window (the oldest entry leaving at the cap), whichever tab is
\* active when the snapshot arrives.
C21_HistoryComplete ==
    /\ history = <<>>
    /\ [][(FeedAny /\ simState'.step > 0) =>
            /\ Len(history') = Min(Len(history) + 1, MAX_HISTORY)
            /\ history'[Len(history')] = HistoryEntry(simState', metrics')]_vars

\* ------------------------------------------------ AnalysisTab (rendering)
\* const mempoolData = history.map(h => h.mempool), and the other series
Derive(h, field) == [i \in 1..Len(h) |-> h[i][field]]

\* StatsSummary returns null for an empty history
NoTrend == "null"

\* a / b * 100 on JavaScript numbers: the exact ratio for a non-zero
\* divisor, NaN or an infinity for a zero one
PercentOf(a, b) ==
    IF b # 0 THEN [num |-> a * 100, den |-> b]
    ELSE IF a = 0 THEN "NaN"
    ELSE IF a > 0 THEN "Infinity" ELSE "-Infinity"

\* StatsSummary({ history }): the trends it renders
StatsSummary(h) ==
    IF Len(h) = 0 THEN NoTrend
    ELSE LET latest == h[Len(h)]
             first == h[1]
         IN  [mempoolTrend |-> latest.mempool - first.mempool,
              feeTrend |-> latest.fee - first.fee,
              hashrateTrend |->
                  PercentOf(latest.hashrate - first.hashrate, first.hashrate)]

\* MiniChart({ data }): "No data yet" for an empty series
MiniChart(data) ==
    IF Len(data) = 0 THEN "No data yet"
    ELSE [currentVal |-> data[Len(data)]]

\* the engine's stream with the hashrate values its data model allows
\* (every metric is non-negative)
HashrateValues == {0, DefaultHashrate, DefaultHashrate + 50}
TrendInputs ==
    {ResetSnap}
    \cup { [step |-> n,
            metrics |-> [MetricsAt(EmptyParams, n) EXCEPT !.hashrate = v],
            activity |-> EmptyRec] :
             n \in {simState.step + 1} \cap (1..MaxTrendStep),
             v \in HashrateValues }

TrendNext ==
    \/ SocketConnect
    \/ ShowAnalysis
    \/ HideAnalysis
    \/ \E s \in TrendInputs : FeedSnapshot(s)

TrendSpec == Init /\ [][TrendNext]_vars

HistoryFields == {"mempool", "fee", "blocks", "hashrate", "difficulty"}

\* C22: no trend computation divides by zero: for an empty window no trend
\* is computed and every derived series is empty, and for a non-empty
\* window the hashrate percent-change has a non-zero divisor, the first
\* entry's hashrate.
C22_DivisionFreeTrends ==
    /\ history = <<>> =>
         /\ StatsSummary(history) = NoTrend
         /\ \A f \in HistoryFields :
              /\ Derive(history, f) = <<>>
              /\ MiniChart(Derive(history, f)) = "No data yet"
    /\ history # <<>> =>
         /\ history[1].hashrate # 0
         /\ StatsSummary(history).hashrateTrend
              = [num |-> (history[Len(history)].hashrate
                            - history[1].hashrate) * 100,
                 den |-> history[1].hashrate]

\* --------------------------------------------------- App (scenario props)
\* the registry's scenarios as App receives them: id, name, hypothesis
\* ("" for a null or empty one) and the parameter bundle
ScenarioIds == {"baseline", "fee_spike", "halving"}
Hypotheses == {"", "Congestion raises fees", "Reward drop squeezes miners"}
ScenarioName(id) ==
    IF id = "baseline" THEN "Baseline"
    ELSE IF id = "fee_spike" THEN "Fee Spike" ELSE "Halving Event"
ScenarioParams(id) ==
    IF id = "baseline" THEN EmptyParams
    ELSE IF id = "fee_spike" THEN FeeSpikeParams ELSE {<<"block_reward", 3>>}
ScenarioInputs ==
    { [id |-> i, name |-> ScenarioName(i), hypothesis |-> h,
       params |-> ScenarioParams(i)] : i \in ScenarioIds, h \in Hypotheses }

\* the && chain renders nothing
NoBanner == <<>>

HypothesisBannerAnyId(sc) ==
    IF sc.hypothesis # "" THEN <<sc.name, sc.hypothesis>> ELSE NoBanner
\* {currentScenario.id !== 'baseline' && currentScenario.hypothesis && (
\*    <div><span>{name}:</span><span>{hypothesis}</span></div>)}
HypothesisBanner(sc) ==
    IF sc.id # "baseline" /\ sc.hypothesis # ""
    THEN <<sc.name, sc.hypothesis>>
    ELSE NoBanner

\* App renders the bar from the currentScenario it holds
RenderApp ==
    /\ ~tornDown
    /\ banner' = HypothesisBanner(currentScenario)
    /\ UNCHANGED <<sessionVars, currentScenario, scenarioPick>>

\* useSimulation() returns { connected, simState, metrics, error, step,
\* reset, run, stop, clearError }: App's setScenario is undefined
setScenario == Undefined

\* <select onChange={(e) => onScenarioChange(e.target.value)}>, with
\* onScenarioChange={setScenario}: calling undefined throws a TypeError in
\* the handler, nothing is emitted or fetched, and the controlled select
\* keeps showing currentScenario.id
SelectScenario(id) ==
    /\ ~tornDown
    /\ id # currentScenario.id
    /\ setScenario = Undefined
    /\ scenarioPick' = id
    /\ UNCHANGED <<sessionVars, currentScenario, banner>>

\* App rendered with a scenario of the registry, over a live session
ScenarioInit ==
    /\ SessionInit
    /\ currentScenario \in ScenarioInputs
    /\ banner = NotRendered
    /\ scenarioPick = Undefined

ScenarioNext ==
    \/ RenderApp
    \/ \E id \in ScenarioIds : SelectScenario(id)
    \/ SocketConnect
    \/ SocketDisconnect
    \/ Step
    \/ ServerChannel
    \/ StateUpdate

ScenarioSpec == ScenarioInit /\ [][ScenarioNext]_vars

DriveNext ==
    \/ SocketConnect
    \/ SocketDisconnect
    \/ Step
    \/ \E p \in ParamsBundles : Reset(p)
    \/ Run
    \/ Stop
    \/ \E id \in 1..MaxTimers : Tick(id)
    \/ StateUpdate
    \/ \E r \in BagToSet(restResp) : RestResponse(r)
    \/ ServerChannel
    \/ \E c \in BagToSet(restReq) : ServerRest(c)

DriveSpec == Init /\ [][DriveNext]_vars

\* the counts handed to the engine's step: negative, zero and positive
StepCounts == (0 - 1)..(MaxStep + 1)
\* the step intents that are in flight to the engine, on either transport
StepIntents ==
    {chanUp[i] : i \in {j \in 1..Len(chanUp) : chanUp[j].ev = "step"}}
    \cup {c.req : c \in {d \in BagToSet(restReq) : d.req.ev = "step"}}

C26_ResetStopsDriver ==
    /\ [][ResetAny => (/\ ~runningRef'
                       /\ ~simState'.running
                       /\ timers' = {}
                       /\ intervalRef' = NoTimer
                       /\ OneTransport("reset"))]_vars
    /\ [][(ResetAny /\ ~runningRef) =>
            UNCHANGED <<driverVars, simState>>]_vars
    /\ [][TickAny => (runningRef /\ OneTransport("step"))]_vars
    /\ [][(~runningRef /\ runningRef') => Run]_vars

C26_Witness ==
    /\ ~runningRef
    /\ ~simState.running
    /\ timers = {}
    /\ intervalRef = NoTimer
    /\ \E c \in BagToSet(restReq) : c.by = "tick" /\ c.req.ev = "step"
    /\ \E c \in BagToSet(restReq) : c.req.ev = "reset"

SnapshotApplied == StateUpdate \/ \E r \in BagToSet(restResp) : RestResponse(r)

\* C27: before teardown the displayed running flag is set exactly when the
\* driver's running flag is set and a cadence timer is scheduled, and
\* applying a snapshot leaves the displayed running flag as it was.
C27_RunningFlagConsistent ==
    /\ [](~tornDown => (simState.running <=> Running))
    /\ [][SnapshotApplied => simState'.running = simState.running]_vars

C27_Witness ==
    /\ simState.running
    /\ Running
    /\ simState.step = 2
    /\ intervalRef \in timers

\* ------------------------------- the session's intents with AnalysisTab
\* step and reset on either transport, every request answered, the channel
\* kept once it is open, and the Analysis tab shown or hidden at any time
TabNext ==
    \/ SocketConnect
    \/ ShowAnalysis
    \/ HideAnalysis
    \/ Step
    \/ \E p \in ParamsBundles : Reset(p)
    \/ StateUpdate
    \/ \E r \in BagToSet(restResp) : RestResponse(r)
    \/ ServerChannel
    \/ \E c \in BagToSet(restReq) : ServerRest(c)

TabSpec == Init /\ [][TabNext]_vars

\* a reset is on its way to the engine, or its snapshot on its way back
ResetPending ==
    \/ \E i \in 1..Len(chanUp) : chanUp[i].ev = "reset"
    \/ \E c \in BagToSet(restReq) : c.req.ev = "reset"
    \/ \E i \in 1..Len(chanDown) : chanDown[i].step = 0
    \/ \E r \in BagToSet(restResp) : r.data.state.step = 0

\* C28: once every reset has been confirmed, the history window holds no
\* entry from before the last reset: each entry is a snapshot the engine
\* has produced since then, so its step is at most the engine's step,
\* however the reset and the step intents interleave.
C28_NoPreResetHistory ==
    ~ResetPending => \A i \in 1..Len(history) : history[i].step <= engine.step

\* C29: the step values of the history entries are strictly increasing
\* from oldest to newest, so no step value appears twice in the window.
C29_HistoryStepOrder ==
    \A i \in 1..(Len(history) - 1) : history[i].step < history[i + 1].step

\* ----------------------------------- snapshots fed to a shown AnalysisTab
\* the snapshots a session may be handed: the engine's canonical snapshot
\* of a step, the same without its metrics, and metrics without a step
FeedInputs ==
    UNION { { Snapshot([step |-> n, params |-> EmptyParams]),
              [step |-> n, metrics |-> EmptyRec, activity |-> EmptyRec],
              [step |-> NoStep, metrics |-> MetricsAt(EmptyParams, n),
               activity |-> EmptyRec] } : n \in 0..MaxFeedStep }

\* the feed stops at a window of MaxWindow entries
FeedNext ==
    \/ SocketConnect
    \/ ShowAnalysis
    \/ HideAnalysis
    \/ \E s \in FeedInputs : Len(history) < MaxWindow /\ FeedSnapshot(s)

FeedSpec == Init /\ [][FeedNext]_vars

\* entry e is the projection of snapshot s alone
EntryOf(s, e) ==
    /\ s.step = e.step
    /\ DOMAIN s.metrics = MetricFields
    /\ e = HistoryEntry([step |-> s.step], s.metrics)

\* C30: every entry appended to the window is the projection of one
\* snapshot: its step and its metric values all come from the snapshot
\* whose application appended it.
C30_EntryCoherence ==
    [][\A s \in FeedInputs :
         (analysisTab /\ Len(history') > Len(history) /\ FeedSnapshot(s))
           => EntryOf(s, history'[Len(history')])]_vars

====
